---------------------------- MODULE Spec2Model ----------------------------
(***************************************************************************)
(* Key-dependent permutations of integers (github.com/fasaxc/permutation). *)
(*                                                                         *)
(* Two fixed-domain Feistel engines over [0, 2^lengthBits):                *)
(*   FeistelSHAKE128 (NewPowerOf2)  round function = SHAKE128 squeeze      *)
(*   FFX             (NewFFX)       round function = AES CBC-MAC           *)
(* and the cycle-walking adapter ArbitraryN (NewN) over [0, N).            *)
(*                                                                         *)
(* math/big values are modelled as TLA+ integers with the two's complement *)
(* semantics big.Int gives And/Or/Xor/Rsh on negative numbers.  The two    *)
(* external primitives (SHAKE128, HKDF+AES) are modelled as deterministic  *)
(* keyed byte functions; the Feistel code around them is translated line   *)
(* by line.                                                                *)
(***************************************************************************)
EXTENDS Integers, Sequences, FiniteSets, TLC

VARIABLES
    obj,     \* the permutation object under test (ArbitraryN, FeistelSHAKE128 or FFX)
    pc,      \* position of the running call
    fr,      \* the running call's frame (arguments and locals of PermuteInPlace)
    prev,    \* the previous completed call, as a test's "seen" entry
    hist,    \* observation of the engine calls made so far
    env,     \* the caller: the values and tweaks it passes
    twin     \* a second call followed side by side with the first: [obj, fr]

vars == <<obj, pc, fr, prev, hist, env, twin>>

---------------------------------------------------------------------------
(* Bounds of the model.                                                    *)

\* Range sizes N = 1..MaxN are built with NewN and permuted exhaustively.
MaxN == 5

---------------------------------------------------------------------------
(* Program constants.                                                      *)

\* aes.BlockSize
BlockSize == 16
\* NewFFX: lengthBits must be in [FFXMinBits, FFXMaxBits]
FFXMinBits == 8
FFXMaxBits == 128
\* FFX header constants
vers == 1
method == 2
addition == 0
radix == 2

---------------------------------------------------------------------------
(* math/big and encoding/binary.                                           *)

Pow2(n) == 2 ^ n

Abs(x) == IF x < 0 THEN -x ELSE x

\* big.Int.BitLen: the length of |x| in bits, 0 for 0.
RECURSIVE BitLen(_)
BitLen(x) == IF Abs(x) = 0 THEN 0 ELSE 1 + BitLen(Abs(x) \div 2)

\* big.Int bitwise operations are defined on the infinite two's complement
\* representation, so they are total on negative numbers too.
RECURSIVE BigXor(_, _)
BigXor(x, y) ==
    IF x \in {0, -1} /\ y \in {0, -1}
    THEN (IF x = y THEN 0 ELSE -1)
    ELSE (((x % 2) + (y % 2)) % 2) + 2 * BigXor(x \div 2, y \div 2)

RECURSIVE BigAnd(_, _)
BigAnd(x, y) ==
    IF x \in {0, -1} /\ y \in {0, -1}
    THEN (IF x = -1 /\ y = -1 THEN -1 ELSE 0)
    ELSE ((x % 2) * (y % 2)) + 2 * BigAnd(x \div 2, y \div 2)

RECURSIVE BigOr(_, _)
BigOr(x, y) ==
    IF x \in {0, -1} /\ y \in {0, -1}
    THEN (IF x = 0 /\ y = 0 THEN 0 ELSE -1)
    ELSE (IF x % 2 = 1 \/ y % 2 = 1 THEN 1 ELSE 0) + 2 * BigOr(x \div 2, y \div 2)

\* big.Int.Rsh is an arithmetic shift (rounds toward minus infinity).
BigRsh(x, n) == x \div Pow2(n)
BigLsh(x, n) == x * Pow2(n)

\* big.Int.Uint64: the low 64 bits of |x| (all values of the model fit).
BigUint64(x) == Abs(x)

\* Byte k (0 = least significant) of a non-negative machine integer.
ByteAt(n, k) == IF k >= 4 THEN 0 ELSE (n \div (256 ^ k)) % 256

\* binary.LittleEndian.PutUint64 / binary.BigEndian.PutUint64
LittleEndian64(n) == [j \in 1..8 |-> ByteAt(n, j - 1)]
BigEndian64(n) == [j \in 1..8 |-> ByteAt(n, 8 - j)]

\* big.Int.FillBytes(buf): |x| big-endian, zero-extended to len(buf) bytes;
\* it panics when |x| does not fit.
FitsBytes(x, n) == BitLen(x) <= 8 * n
FillBytes(x, n) == [j \in 1..n |-> ByteAt(Abs(x), n - j)]

\* big.Int.SetBytes: the big-endian unsigned value of the bytes.
RECURSIVE SetBytes(_)
SetBytes(bytes) ==
    IF bytes = <<>> THEN 0
    ELSE bytes[Len(bytes)] + 256 * SetBytes(SubSeq(bytes, 1, Len(bytes) - 1))

\* subtle.XORBytes over two equally long byte strings.
XORBytes(x, y) == [j \in 1..Len(x) |-> BigXor(x[j], y[j])]

\* The round schedule shared by NewPowerOf2 and NewFFX.
Rounds(lengthBits) ==
    IF lengthBits <= 9 THEN 36
    ELSE IF lengthBits <= 13 THEN 30
    ELSE IF lengthBits <= 19 THEN 24
    ELSE IF lengthBits <= 31 THEN 18
    ELSE 12

---------------------------------------------------------------------------
(* External primitives: SHAKE128 and HKDF+AES, as deterministic functions  *)
(* of exactly the bytes the code feeds them.                               *)

RECURSIVE AbsorbFrom(_, _, _)
AbsorbFrom(h, bytes, i) ==
    IF i > Len(bytes) THEN h
    ELSE AbsorbFrom((h * 31 + bytes[i] + 1) % 65521, bytes, i + 1)

Absorb(h, bytes) == AbsorbFrom(h, bytes, 1)

SqueezeByte(h, j) == ((h + j) * (2 * j + 3) + (h \div 7) + (h \div 64)) % 256

\* sha3.SHAKE: Reset, Write(msg), Read(n bytes).
ShakeRead(msg, n) ==
    LET h == Absorb(5381, msg)
    IN [j \in 1..n |-> SqueezeByte(h, j)]

\* hkdf.Key + aes.NewCipher + cipher.Block.Encrypt on one 16-byte block.
AesEncrypt(key, block) ==
    LET h == Absorb(977, key \o <<255>> \o block)
    IN [j \in 1..BlockSize |-> SqueezeByte(h, j + 16)]

---------------------------------------------------------------------------
(* Natural numbers too large for a machine word (NewN takes a *big.Int):   *)
(* math/big's nat, here a little-endian sequence of bits without leading   *)
(* zeros.                                                                  *)

RECURSIVE NatOf(_)
NatOf(n) == IF n = 0 THEN <<>> ELSE <<n % 2>> \o NatOf(n \div 2)

RECURSIVE IntOf(_)
IntOf(bits) == IF bits = <<>> THEN 0 ELSE bits[1] + 2 * IntOf(Tail(bits))

\* nat.norm: the leading zeros dropped.
NatNorm(bits) ==
    LET set == {j \in 1..Len(bits) : bits[j] = 1}
    IN IF set = {} THEN <<>>
       ELSE SubSeq(bits, 1, CHOOSE j \in set : \A k \in set : k <= j)

\* x - 1 for x >= 1 (borrow through the low zero bits).
NatDec(bits) ==
    LET low == CHOOSE j \in 1..Len(bits) :
                   bits[j] = 1 /\ \A k \in 1..(j - 1) : bits[k] = 0
    IN [j \in 1..Len(bits) |->
           IF j < low THEN 1 ELSE IF j = low THEN 0 ELSE bits[j]]

NatSub1(bits) == NatNorm(NatDec(bits))

\* nat.bitLen
NatBitLen(bits) == Len(bits)

NatPow2(k) == [j \in 1..(k + 1) |-> IF j = k + 1 THEN 1 ELSE 0]

\* nat.cmp: -1, 0, +1
NatCmpSameLen(x, y) ==
    LET differ == {j \in 1..Len(x) : x[j] # y[j]}
    IN IF differ = {} THEN 0
       ELSE LET top == CHOOSE j \in differ : \A k \in differ : k <= j
            IN IF x[top] < y[top] THEN -1 ELSE 1

NatCmp(x, y) ==
    IF Len(x) < Len(y) THEN -1
    ELSE IF Len(x) > Len(y) THEN 1
    ELSE NatCmpSameLen(x, y)

---------------------------------------------------------------------------
(* FeistelSHAKE128: the extendable-output engine.                          *)

Zeros(n) == [j \in 1..n |-> 0]

\* buf[:n] = bytes (the rest of buf is kept).
Overwrite(buf, bytes) == [j \in 1..Len(buf) |-> IF j <= Len(bytes) THEN bytes[j] ELSE buf[j]]

ConstructorPanic(msg) == [kind |-> "panic", msg |-> msg]

NewPowerOf2(key, lengthBits) ==
    IF lengthBits <= 1 THEN ConstructorPanic("lengthBits must be >1")
    ELSE [kind |-> "FeistelSHAKE128",
          key |-> key,
          lengthBits |-> lengthBits,
          rounds |-> Rounds(lengthBits),
          in |-> 0, a |-> 0, b |-> 0, c |-> 0, f |-> 0, mask |-> 0,
          roundScratch |-> <<>>]

\* The frame of a call that has not entered an engine yet.
NoFrame ==
    [op |-> "none", value |-> 0, tweak |-> <<>>, inOut |-> 0, apps |-> 0,
     split |-> 0, a |-> 0, b |-> 0, c |-> 0, f |-> 0, i |-> 0, panic |-> ""]

\* Width of the half fed to round `round`, and of the round's output.
InLenBits(lengthBits, round) ==
    IF round % 2 = 0 THEN lengthBits \div 2 ELSE lengthBits - (lengthBits \div 2)

OutLenBits(lengthBits, round) ==
    IF round % 2 = 0 THEN lengthBits - (lengthBits \div 2) ELSE lengthBits \div 2

\* The bytes one round absorbs before the half-value.
ShakeHeader(key, outLenBits, round, tweak) ==
    LittleEndian64(Len(key)) \o key \o LittleEndian64(outLenBits) \o LittleEndian64(round)
    \o (IF Len(tweak) > 0 THEN LittleEndian64(Len(tweak)) \o tweak ELSE <<>>)

\* The squeezed bytes taken whole, the first byte unmasked.
MaskOutBytesWhole(outBytes, outLenBits) == outBytes

\* The squeezed bytes with the top bits of the first byte masked off.
MaskOutBytes(outBytes, outLenBits) ==
    LET rem == outLenBits % 8
    IN IF rem # 0
       THEN [outBytes EXCEPT ![1] = BigAnd(@, 255 \div Pow2(8 - rem))]
       ELSE outBytes

\* FeistelSHAKE128.RoundFunc(round, b, out, tweak) given the bytes `read`
\* that h.Read squeezes: b and out name scratch fields of p.  The result is
\* p with roundScratch and the out field written, or a panic of b.FillBytes.
FeistelRoundFuncWith(p, round, b, out, read) ==
    LET inLenBits == InLenBits(p.lengthBits, round)
        outLenBits == OutLenBits(p.lengthBits, round)
        need == (p.lengthBits + 7) \div 8
        scratch0 == IF Len(p.roundScratch) < need THEN Zeros(need) ELSE p.roundScratch
        inLenBytes == (inLenBits + 7) \div 8
    IN IF ~FitsBytes(p[b], inLenBytes)
       THEN [p |-> [p EXCEPT !.roundScratch = scratch0],
             panic |-> "math/big: buffer too small to fit value"]
       ELSE LET scratch1 == Overwrite(scratch0, FillBytes(p[b], inLenBytes))
                outBytes == MaskOutBytes(read, outLenBits)
                scratch2 == Overwrite(scratch1, outBytes)
            IN [p |-> [p EXCEPT !.roundScratch = scratch2, ![out] = SetBytes(outBytes)],
                panic |-> ""]

\* What SHAKE128 squeezes in round `round` for the half-value in field b.
ShakeOutput(p, round, b, tweak) ==
    LET inLenBytes == (InLenBits(p.lengthBits, round) + 7) \div 8
        outLenBits == OutLenBits(p.lengthBits, round)
    IN ShakeRead(ShakeHeader(p.key, outLenBits, round, tweak) \o FillBytes(p[b], inLenBytes),
                 (outLenBits + 7) \div 8)

FeistelRoundFunc(p, round, b, out, tweak) ==
    FeistelRoundFuncWith(p, round, b, out, ShakeOutput(p, round, b, tweak))

\* The set-up that leaves the high half as the last call left it.
FeistelSetupStaleHalf(p, frame) ==
    LET split == p.lengthBits \div 2
        mask == Pow2(split) - 1
    IN [p |-> [p EXCEPT !.mask = mask,
                        !.b = BigAnd(frame.inOut, mask)],
        fr |-> [frame EXCEPT !.split = split, !.a = "a", !.b = "b", !.c = "c",
                             !.f = "f", !.i = 0]]

\* FeistelSHAKE128.PermuteInPlace, up to the round loop.
FeistelSetup(p, frame) ==
    LET split == p.lengthBits \div 2
        mask == Pow2(split) - 1
    IN [p |-> [p EXCEPT !.mask = mask,
                        !.b = BigAnd(frame.inOut, mask),
                        !.a = BigRsh(frame.inOut, split)],
        fr |-> [frame EXCEPT !.split = split, !.a = "a", !.b = "b", !.c = "c",
                             !.f = "f", !.i = 0]]

\* The round with the XOR left out (c takes f alone).
FeistelRoundAfterNoXor(frame, rf) ==
    IF rf.panic # ""
    THEN [p |-> rf.p, fr |-> [frame EXCEPT !.panic = rf.panic]]
    ELSE [p |-> [rf.p EXCEPT ![frame.c] = rf.p[frame.f]],
          fr |-> [frame EXCEPT !.a = frame.b, !.b = frame.c, !.c = frame.a,
                               !.i = frame.i + 1]]

\* One iteration of the round loop: f = RoundFunc(i, b, f, tweak);
\* c.Xor(a, f); a, b, c = b, c, a.  rf is what RoundFunc returned.
FeistelRoundAfter(frame, rf) ==
    IF rf.panic # ""
    THEN [p |-> rf.p, fr |-> [frame EXCEPT !.panic = rf.panic]]
    ELSE [p |-> [rf.p EXCEPT ![frame.c] = BigXor(rf.p[frame.a], rf.p[frame.f])],
          fr |-> [frame EXCEPT !.a = frame.b, !.b = frame.c, !.c = frame.a,
                               !.i = frame.i + 1]]

FeistelRound(p, frame) ==
    FeistelRoundAfter(frame, FeistelRoundFunc(p, frame.i, frame.b, frame.f, frame.tweak))

\* After the loop: out := inOut.Lsh(a, split); out.Or(out, b).
FeistelFinish(p, frame) ==
    [p |-> p,
     fr |-> [frame EXCEPT !.inOut = BigOr(BigLsh(p[frame.a], frame.split), p[frame.b])]]

---------------------------------------------------------------------------
(* FFX: the AES engine.                                                    *)

\* The header block P as NewFFX leaves it (the tweak-length field is zero).
HeaderP(lengthBits, split, rounds) ==
    <<vers \div 256, vers % 256, method, addition, radix,
      lengthBits % 256, split % 256, rounds % 256>> \o Zeros(8)

NewFFX(key, lengthBits) ==
    IF lengthBits < FFXMinBits \/ lengthBits > FFXMaxBits
    THEN ConstructorPanic("lengthBits must be in [8, 128]")
    ELSE LET split == lengthBits \div 2
         IN [kind |-> "FFX",
             aes |-> key,
             lengthBits |-> lengthBits,
             rounds |-> Rounds(lengthBits),
             tweakLen |-> -1,
             mask |-> NatSub1(NatPow2(lengthBits - split)),
             p |-> HeaderP(lengthBits, split, Rounds(lengthBits)),
             encryptedP |-> Zeros(BlockSize),
             q |-> <<>>,
             in |-> 0, masked |-> 0,
             inBytes |-> Zeros(BlockSize), outBytes |-> Zeros(BlockSize),
             nEncryptP |-> 0]

\* calculateEncryptedP that takes any filled cache for current.
calculateEncryptedPOnce(p, split, tweakLen) ==
    IF p.tweakLen # -1 THEN p
    ELSE LET hdr == SubSeq(p.p, 1, 8) \o BigEndian64(tweakLen)
         IN [p EXCEPT !.p = hdr,
                      !.encryptedP = AesEncrypt(p.aes, hdr),
                      !.tweakLen = tweakLen,
                      !.nEncryptP = @ + 1]

\* calculateEncryptedP that does not record the length it encrypted for.
calculateEncryptedPUnrecorded(p, split, tweakLen) ==
    IF tweakLen = p.tweakLen THEN p
    ELSE LET hdr == SubSeq(p.p, 1, 8) \o BigEndian64(tweakLen)
         IN [p EXCEPT !.p = hdr,
                      !.encryptedP = AesEncrypt(p.aes, hdr),
                      !.nEncryptP = @ + 1]

\* FFX.calculateEncryptedP.  nEncryptP counts the header encryptions of
\* the running call (it is reset when the call starts).
calculateEncryptedP(p, split, tweakLen) ==
    IF tweakLen = p.tweakLen THEN p
    ELSE LET hdr == SubSeq(p.p, 1, 8) \o BigEndian64(tweakLen)
         IN [p EXCEPT !.p = hdr,
                      !.encryptedP = AesEncrypt(p.aes, hdr),
                      !.tweakLen = tweakLen,
                      !.nEncryptP = @ + 1]

\* The working block Q: tweak, zero padding to 7 mod 16, the marker byte,
\* eight bytes for B.
BuildQ(tweak) == tweak \o Zeros((7 - Len(tweak)) % 16) \o <<1>> \o Zeros(8)

\* FFX.PermuteInPlace, up to the round loop.
FFXSetup(p, frame) ==
    LET split == p.lengthBits \div 2
        masked1 == BigAnd(frame.inOut, IntOf(p.mask))
        b == BigUint64(masked1)
        masked2 == BigRsh(frame.inOut, p.lengthBits - split)
        a == BigUint64(masked2)
        p1 == calculateEncryptedP([p EXCEPT !.masked = masked2], split, Len(frame.tweak))
    IN [p |-> [p1 EXCEPT !.q = BuildQ(frame.tweak)],
        fr |-> [frame EXCEPT !.split = split, !.a = a, !.b = b, !.c = 0, !.i = 0]]

\* The CBC-MAC chain over the blocks of Q, starting from encryptedP.
RECURSIVE CbcMac(_, _, _, _)
CbcMac(key, inBytes, outBytes, remainingQ) ==
    IF Len(remainingQ) = 0 THEN [inBytes |-> inBytes, outBytes |-> outBytes]
    ELSE LET block == SubSeq(remainingQ, 1, BlockSize)
             in2 == XORBytes(outBytes, block)
         IN CbcMac(key, in2, AesEncrypt(key, in2),
                   SubSeq(remainingQ, BlockSize + 1, Len(remainingQ)))

\* The truncation left out: the whole low bytes are kept.
KeepLowBytes(bytes, bitsToKeep) ==
    LET n == (bitsToKeep + 7) \div 8
    IN SetBytes(SubSeq(bytes, Len(bytes) - n + 1, Len(bytes)))

\* out = (out << bitsToLose) >> bitsToLose on a uint64 read big-endian from
\* the eight bytes: the low bitsToKeep bits of the value.
KeepLowBits(bytes, bitsToKeep) ==
    LET n == (bitsToKeep + 7) \div 8
    IN SetBytes(SubSeq(bytes, Len(bytes) - n + 1, Len(bytes))) % Pow2(bitsToKeep)

BitsToKeep(lengthBits, i) ==
    IF i % 2 = 0 THEN lengthBits \div 2 ELSE lengthBits - (lengthBits \div 2)

\* Q with B written big-endian into its last eight bytes.
PutB(q, B) == SubSeq(q, 1, Len(q) - 8) \o BigEndian64(B)

\* FFX.RoundFunc(i, B, tweak) given the CBC-MAC's final inBytes and
\* outBytes: the object with q, inBytes, outBytes written, and the round's
\* output.
FFXRoundFuncWith(p, i, B, mac) ==
    [p |-> [p EXCEPT !.q = PutB(p.q, B), !.inBytes = mac.inBytes,
                     !.outBytes = mac.outBytes],
     out |-> KeepLowBits(SubSeq(mac.outBytes, 9, 16), BitsToKeep(p.lengthBits, i))]

FFXRoundFunc(p, i, B) ==
    FFXRoundFuncWith(p, i, B, CbcMac(p.aes, p.inBytes, p.encryptedP, PutB(p.q, B)))

\* One iteration of the round loop: c = a ^ RoundFunc(i, b); a = b; b = c.
\* rf is what RoundFunc returned.
FFXRoundAfter(frame, rf) ==
    LET c == BigXor(frame.a, rf.out)
    IN [p |-> rf.p,
        fr |-> [frame EXCEPT !.c = c, !.a = frame.b, !.b = c, !.i = frame.i + 1]]

FFXRound(p, frame) == FFXRoundAfter(frame, FFXRoundFunc(p, frame.i, frame.b))

\* After the loop: inOut = (a << (lengthBits - split)) | b; masked is cleared.
FFXFinish(p, frame) ==
    [p |-> [p EXCEPT !.masked = 0],
     fr |-> [frame EXCEPT
                !.inOut = BigOr(BigLsh(frame.a, p.lengthBits - frame.split), frame.b)]]

---------------------------------------------------------------------------
(* ArbitraryN: cycle walking over one of the engines.                      *)

\* NewN without the ceiling on the AES engine's width.
NewNNoCeiling(key, n) ==
    LET nMinus1 == NatSub1(n)
        bitLen0 == NatBitLen(nMinus1)
        bitLen == IF bitLen0 <= 1 THEN 2 ELSE bitLen0
        p2n == IF bitLen >= 8
               THEN NewFFX(key, bitLen)
               ELSE NewPowerOf2(key, bitLen)
    IN [kind |-> "ArbitraryN", p |-> p2n, n |-> n, in |-> 0]

\* NewN that takes one bit more than n - 1 needs.
NewNSpareBit(key, n) ==
    LET nMinus1 == NatSub1(n)
        bitLen0 == NatBitLen(nMinus1) + 1
        bitLen == IF bitLen0 <= 1 THEN 2 ELSE bitLen0
        p2n == IF bitLen >= 8 /\ bitLen <= 128
               THEN NewFFX(key, bitLen)
               ELSE NewPowerOf2(key, bitLen)
    IN [kind |-> "ArbitraryN", p |-> p2n, n |-> n, in |-> 0]

\* NewN(key, n), n a nat >= 1.
NewN(key, n) ==
    LET nMinus1 == NatSub1(n)
        bitLen0 == NatBitLen(nMinus1)
        bitLen == IF bitLen0 <= 1 THEN 2 ELSE bitLen0
        p2n == IF bitLen >= 8 /\ bitLen <= 128
               THEN NewFFX(key, bitLen)
               ELSE NewPowerOf2(key, bitLen)
    IN [kind |-> "ArbitraryN", p |-> p2n, n |-> n, in |-> 0]

\* The entry check, inOut.Cmp(&p.n) >= 0, with the off-by-one a slip would give.
OutsideRangeStrict(o, inOut) == inOut > IntOf(o.n)

OutsideRange(o, inOut) == inOut >= IntOf(o.n)

\* The loop's exit test, inOut.Cmp(&p.n) < 0, with its off-by-one.
InRangeInclusive(o, inOut) == inOut <= IntOf(o.n)

InRange(o, inOut) == inOut < IntOf(o.n)

\* The engine behind the Permutation interface, and the object with its
\* engine replaced.
Engine(o) == IF o.kind = "ArbitraryN" THEN o.p ELSE o
WithEngine(o, e) == IF o.kind = "ArbitraryN" THEN [o EXCEPT !.p = e] ELSE e

\* p.PermuteInPlace(inOut, tweak) of the engine, in its three parts.
EngineSetup(e, frame) ==
    IF e.kind = "FFX" THEN FFXSetup(e, frame) ELSE FeistelSetup(e, frame)

EngineRound(e, frame) ==
    IF e.kind = "FFX" THEN FFXRound(e, frame) ELSE FeistelRound(e, frame)

EngineFinish(e, frame) ==
    IF e.kind = "FFX" THEN FFXFinish(e, frame) ELSE FeistelFinish(e, frame)

\* The engine's whole PermuteInPlace as a function of object and frame.
RECURSIVE RunRounds(_, _)
RunRounds(e, frame) ==
    IF frame.panic # "" \/ frame.i >= e.rounds THEN [p |-> e, fr |-> frame]
    ELSE LET r == EngineRound(e, frame) IN RunRounds(r.p, r.fr)

EnginePermuteInPlace(e, frame) ==
    LET s == EngineSetup(e, frame)
        r == RunRounds(s.p, s.fr)
    IN IF r.fr.panic # "" THEN r ELSE EngineFinish(r.p, r.fr)

\* The cycle-walking loop of ArbitraryN.PermuteInPlace.
RECURSIVE CycleWalk(_, _)
CycleWalk(o, frame) ==
    LET r == EnginePermuteInPlace(o.p, frame)
        o2 == [o EXCEPT !.p = r.p]
    IN IF r.fr.panic # "" \/ InRange(o, r.fr.inOut)
       THEN [p |-> o2, fr |-> r.fr]
       ELSE CycleWalk(o2, r.fr)

\* PermuteInPlace(value, tweak) of any of the three objects, start to end.
PermuteInPlace(o, value, tweak) ==
    LET frame == [NoFrame EXCEPT !.op = "PermuteInPlace", !.value = value,
                                 !.tweak = tweak, !.inOut = value]
    IN IF o.kind = "ArbitraryN"
       THEN IF OutsideRange(o, value)
            THEN [p |-> o, fr |-> [frame EXCEPT !.panic = "outside range of permutation"]]
            ELSE CycleWalk(o, frame)
       ELSE EnginePermuteInPlace(o, frame)

---------------------------------------------------------------------------
(* The objects and the calls of the model.                                 *)

Keys == {<<1>>, <<2, 7>>}

\* The size of the domain an object permutes.
DomainSize(o) == IF o.kind = "ArbitraryN" THEN IntOf(o.n) ELSE Pow2(o.lengthBits)

\* The values a caller passes: every value of the domain, or a sample of
\* it, and in both cases -1 and the first value past the end.
AllValues(o) == (-1)..DomainSize(o)

SampleValues(o) == {-1, 0, 1, DomainSize(o) - 1, DomainSize(o)}

NoPrev == [valid |-> FALSE, tweak |-> <<>>, value |-> 0, out |-> 0]
NoHist == [n |-> 0, prevLen |-> 0, curLen |-> 0]
NoTwin == [obj |-> [kind |-> "none"], fr |-> NoFrame]

\* A caller of object o: one that uses PermuteInt (as TestPermute does), or
\* one that uses PermuteInPlace with the tweaks of the set tweaks (as
\* TestPermuteVeryLarge does).
Start(o, inputs, tweaks) ==
    /\ obj = o
    /\ \E api \in {"PermuteInt", "PermuteInPlace"} :
          env = [api |-> api, inputs |-> inputs, tweaks |-> tweaks]
    /\ pc = "idle"
    /\ fr = NoFrame
    /\ prev = NoPrev
    /\ hist = NoHist
    /\ twin = NoTwin

\* Small ranges over the SHAKE engine, permuted as TestPermute does.
Init ==
    \E key \in Keys, n \in 1..MaxN :
        LET o == NewN(key, NatOf(n)) IN Start(o, AllValues(o), {<<>>, <<5>>})

\* PermuteInt(in) sets the object's own `in` and passes it as inOut with a
\* nil tweak; PermuteInPlace takes the caller's value and tweak.  An
\* ArbitraryN checks the range before it enters its loop.
Call(op, value, tweak) ==
    /\ pc = "idle"
    /\ LET frame == [NoFrame EXCEPT !.op = op, !.value = value, !.tweak = tweak,
                                    !.inOut = value]
           o == IF op = "PermuteInt" THEN [obj EXCEPT !.in = value] ELSE obj
       IN /\ obj' = o
          /\ IF o.kind = "ArbitraryN" /\ OutsideRange(o, value)
             THEN /\ pc' = "panicked"
                  /\ fr' = [frame EXCEPT !.panic = "outside range of permutation"]
             ELSE /\ pc' = "enter"
                  /\ fr' = frame
    /\ UNCHANGED <<prev, hist, env, twin>>

CallPermuteInt ==
    /\ env.api = "PermuteInt"
    /\ \E v \in env.inputs : Call("PermuteInt", v, <<>>)

CallPermuteInPlace ==
    /\ env.api = "PermuteInPlace"
    /\ \E v \in env.inputs, t \in env.tweaks : Call("PermuteInPlace", v, t)

\* The engine's PermuteInPlace starts: everything before its round loop.
Enter ==
    /\ pc = "enter"
    /\ LET e == Engine(obj)
           e0 == IF e.kind = "FFX" THEN [e EXCEPT !.nEncryptP = 0] ELSE e
           r == EngineSetup(e0, fr)
       IN /\ obj' = WithEngine(obj, r.p)
          /\ fr' = [r.fr EXCEPT !.apps = @ + 1]
    /\ hist' = IF Engine(obj).kind = "FFX"
               THEN [n |-> IF hist.n >= 2 THEN 2 ELSE hist.n + 1,
                     prevLen |-> hist.curLen,
                     curLen |-> Len(fr.tweak)]
               ELSE hist
    /\ pc' = "rounds"
    /\ UNCHANGED <<prev, env, twin>>

\* One Feistel round.
Round ==
    /\ pc = "rounds"
    /\ fr.i < Engine(obj).rounds
    /\ LET r == EngineRound(Engine(obj), fr)
       IN /\ obj' = WithEngine(obj, r.p)
          /\ fr' = r.fr
          /\ pc' = IF r.fr.panic # "" THEN "panicked" ELSE "rounds"
    /\ UNCHANGED <<prev, hist, env, twin>>

\* The engine's PermuteInPlace returns; an ArbitraryN tests the result and
\* either returns it or applies the engine again.
EngineReturn ==
    /\ pc = "rounds"
    /\ fr.i >= Engine(obj).rounds
    /\ LET r == EngineFinish(Engine(obj), fr)
           o == WithEngine(obj, r.p)
       IN /\ obj' = IF fr.op = "PermuteInt" THEN [o EXCEPT !.in = r.fr.inOut] ELSE o
          /\ fr' = r.fr
          /\ pc' = IF obj.kind = "ArbitraryN" /\ ~InRange(obj, r.fr.inOut)
                   THEN "enter" ELSE "returned"
    /\ UNCHANGED <<prev, hist, env, twin>>

\* The call hands its result to the caller.  FFX.PermuteInt clears p.in.
Return ==
    /\ pc = "returned"
    /\ obj' = IF obj.kind = "FFX" /\ fr.op = "PermuteInt" THEN [obj EXCEPT !.in = 0] ELSE obj
    /\ prev' = [valid |-> TRUE, tweak |-> fr.tweak, value |-> fr.value, out |-> fr.inOut]
    /\ fr' = NoFrame
    /\ pc' = "idle"
    /\ UNCHANGED <<hist, env, twin>>

\* The panic unwinds to a caller that recovers; the object stays as it is.
Recover ==
    /\ pc = "panicked"
    /\ fr' = NoFrame
    /\ pc' = "idle"
    /\ UNCHANGED <<obj, prev, hist, env, twin>>

Next ==
    \/ CallPermuteInt
    \/ CallPermuteInPlace
    \/ Enter
    \/ Round
    \/ EngineReturn
    \/ Return
    \/ Recover

Spec == Init /\ [][Next]_vars

\* The fixed-domain engines called directly, and a range that NewN builds
\* over FFX; the callers pass tweaks of two lengths and two tweaks of one
\* length.
EngineTweaks == {<<>>, <<0>>, <<5>>}

EngineObjects ==
    {NewPowerOf2(<<1>>, 2), NewPowerOf2(<<2, 7>>, 3),
     NewFFX(<<1>>, 8), NewFFX(<<2, 7>>, 9),
     NewN(<<1>>, NatOf(200))}

InitEngines == \E o \in EngineObjects : Start(o, SampleValues(o), EngineTweaks)

SpecEngines == InitEngines /\ [][Next]_vars

---------------------------------------------------------------------------
(* Two calls of one engine side by side, with the round function's         *)
(* primitive replaced: the engine's own masking, XOR and swapping run on   *)
(* whatever bytes the replacement hands them.                              *)

\* Widths of the SHAKE engine followed in pairs: 2..MaxPairBits.
MaxPairBits == 3

\* Number of table round functions tried.
MaxSeed == 3

PairEngines ==
    {NewPowerOf2(<<1>>, l) : l \in 2..MaxPairBits}
    \cup {NewFFX(<<1>>, l) : l \in {8, 9}}

\* Every input of a small domain; corners and the half boundary of a large one.
PairInputs(e) ==
    IF e.lengthBits <= 6 THEN 0..(Pow2(e.lengthBits) - 1)
    ELSE {0, 1, Pow2(e.lengthBits \div 2), Pow2(e.lengthBits) - 1}

\* The round functions tried: the engine's own primitive, the constant
\* ones (all bits clear, all bits set, the latter with bits above every
\* round's output width), and tables of (round, half-value) by seed.
RoundFunctions ==
    {[kind |-> k, seed |-> 0] : k \in {"primitive", "zero", "ones"}}
    \cup {[kind |-> "table", seed |-> s] : s \in 1..MaxSeed}

\* n bytes of round function rf for a round and a half-value.
GivenBytes(rf, round, half, n) ==
    IF rf.kind = "zero" THEN Zeros(n)
    ELSE IF rf.kind = "ones" THEN [j \in 1..n |-> 255]
    ELSE LET h == Absorb(rf.seed, <<round, half % 256, half \div 256>>)
         IN [j \in 1..n |-> SqueezeByte(h, j)]

\* One round of the engine under round function rf.
EngineRoundWith(e, frame, rf) ==
    IF rf.kind = "primitive" THEN EngineRound(e, frame)
    ELSE IF e.kind = "FFX"
    THEN FFXRoundAfter(frame,
             FFXRoundFuncWith(e, frame.i, frame.b,
                 [inBytes |-> Zeros(BlockSize),
                  outBytes |-> GivenBytes(rf, frame.i, frame.b, BlockSize)]))
    ELSE FeistelRoundAfter(frame,
             FeistelRoundFuncWith(e, frame.i, frame.b, frame.f,
                 GivenBytes(rf, frame.i, e[frame.b],
                            (OutLenBits(e.lengthBits, frame.i) + 7) \div 8)))

CallFrame(value, tweak) ==
    [NoFrame EXCEPT !.op = "PermuteInPlace", !.value = value, !.tweak = tweak,
                    !.inOut = value]

InitPair ==
    \E e \in PairEngines, t \in {<<>>, <<5>>}, rf \in RoundFunctions :
        \E x1 \in PairInputs(e), x2 \in PairInputs(e) :
            /\ x1 < x2
            /\ obj = e
            /\ fr = CallFrame(x1, t)
            /\ twin = [obj |-> e, fr |-> CallFrame(x2, t)]
            /\ env = [api |-> "PermuteInPlace", inputs |-> {x1, x2}, tweaks |-> {t},
                      rf |-> rf]
            /\ pc = "enter"
            /\ prev = NoPrev
            /\ hist = NoHist

PairEnter ==
    /\ pc = "enter"
    /\ LET r1 == EngineSetup(obj, fr)
           r2 == EngineSetup(twin.obj, twin.fr)
       IN /\ obj' = r1.p
          /\ fr' = [r1.fr EXCEPT !.apps = @ + 1]
          /\ twin' = [obj |-> r2.p, fr |-> [r2.fr EXCEPT !.apps = @ + 1]]
    /\ pc' = "rounds"
    /\ UNCHANGED <<prev, hist, env>>

PairRound ==
    /\ pc = "rounds"
    /\ fr.i < obj.rounds
    /\ LET r1 == EngineRoundWith(obj, fr, env.rf)
           r2 == EngineRoundWith(twin.obj, twin.fr, env.rf)
       IN /\ obj' = r1.p
          /\ fr' = r1.fr
          /\ twin' = [obj |-> r2.p, fr |-> r2.fr]
    /\ UNCHANGED <<pc, prev, hist, env>>

PairReturn ==
    /\ pc = "rounds"
    /\ fr.i >= obj.rounds
    /\ LET r1 == EngineFinish(obj, fr)
           r2 == EngineFinish(twin.obj, twin.fr)
       IN /\ obj' = r1.p
          /\ fr' = r1.fr
          /\ twin' = [obj |-> r2.p, fr |-> r2.fr]
    /\ pc' = "returned"
    /\ UNCHANGED <<prev, hist, env>>

NextPair ==
    \/ PairEnter
    \/ PairRound
    \/ PairReturn

SpecPair == InitPair /\ [][NextPair]_vars

---------------------------------------------------------------------------
(* Construction of range permutations of every size class.                 *)

\* NewNInt(key, n) for n >= 1.
NewNInt(key, n) == NewN(key, NatOf(n))

\* Ranges 1..MaxNewN are all constructed.
MaxNewN == 40

\* n + 1 (carry through the low one bits).
NatInc(bits) ==
    LET ext == bits \o <<0>>
        low == CHOOSE j \in 1..Len(ext) :
                   ext[j] = 0 /\ \A k \in 1..(j - 1) : ext[k] = 1
    IN NatNorm([j \in 1..Len(ext) |->
                   IF j < low THEN 0 ELSE IF j = low THEN 1 ELSE ext[j]])

\* Around the powers of two where the engine or the width changes, among
\* them 2^150 of TestPermuteVeryLarge.
EdgeExponents == {7, 8, 9, 127, 128, 129, 150}

Ranges ==
    {NatOf(n) : n \in 1..MaxNewN}
    \cup {NatSub1(NatPow2(k)) : k \in EdgeExponents}
    \cup {NatPow2(k) : k \in EdgeExponents}
    \cup {NatInc(NatPow2(k)) : k \in EdgeExponents}

NoObject == [kind |-> "none"]

InitNewN ==
    /\ \E key \in Keys, n \in Ranges, ctor \in {"NewN", "NewNInt"} :
          /\ ctor = "NewNInt" => Len(n) <= 31
          /\ env = [api |-> ctor, key |-> key, n |-> n]
    /\ obj = NoObject
    /\ pc = "construct"
    /\ fr = NoFrame
    /\ prev = NoPrev
    /\ hist = NoHist
    /\ twin = NoTwin

ConstructN ==
    /\ pc = "construct"
    /\ env.api = "NewN"
    /\ obj' = NewN(env.key, env.n)
    /\ pc' = "idle"
    /\ UNCHANGED <<fr, prev, hist, env, twin>>

ConstructNInt ==
    /\ pc = "construct"
    /\ env.api = "NewNInt"
    /\ obj' = NewNInt(env.key, IntOf(env.n))
    /\ pc' = "idle"
    /\ UNCHANGED <<fr, prev, hist, env, twin>>

NextNewN ==
    \/ ConstructN
    \/ ConstructNInt

SpecNewN == InitNewN /\ [][NextNewN]_vars

---------------------------------------------------------------------------
(* Two PermuteInPlace calls on ONE engine without serialisation: the       *)
(* steps of the two calls (set-up, each round, reassembly) interleave in   *)
(* any order; the engine takes no lock.  Call 1 is (fr, pc), call 2 is     *)
(* (twin.fr, twin.pc); obj is the object both work on.                     *)

\* How many times the scheduler takes the processor from a call that is
\* between its set-up and its return.
MaxSwitches == 1

RaceEngines == {NewPowerOf2(<<1>>, 2), NewFFX(<<1>>, 8)}

\* The inputs of call 1 and call 2.
RaceInputs(e) == <<1, Pow2(e.lengthBits) - 2>>

\* The tweaks of call 1 and call 2: of different lengths, and for the
\* SHAKE engine also the same.
RaceTweaks(e) ==
    IF e.kind = "FFX" THEN {<<<<>>, <<5>>>>}
    ELSE {<<<<>>, <<>>>>, <<<<>>, <<5>>>>}

\* cut1 (cut2): a step of the other call ran while call 1 (call 2) was
\* between its set-up and its return.
\* last: the call that took the last step (0: none yet); switches: the
\* times a call in its rounds lost the processor to the other.
NoCuts == [cut1 |-> FALSE, cut2 |-> FALSE, last |-> 0, switches |-> 0]

\* Before the two calls race, each is run alone on the object as
\* constructed (env.phase = 1, then 2, the call in fr) and what it returns
\* is kept in env.alone; the race (env.phase = 3) starts from the object
\* as constructed again.
InitRace ==
    \E e \in RaceEngines : \E t \in RaceTweaks(e) :
        LET x == RaceInputs(e)
        IN /\ obj = e
           /\ fr = CallFrame(x[1], t[1])
           /\ pc = "enter"
           /\ twin = [obj |-> NoObject, fr |-> CallFrame(x[2], t[2]), pc |-> "enter"]
           /\ env = [api |-> "PermuteInPlace", inputs |-> x, tweaks |-> t,
                     fresh |-> e, phase |-> 1, alone |-> <<0, 0>>]
           /\ hist = NoCuts
           /\ prev = NoPrev

AloneEnter ==
    /\ env.phase < 3
    /\ pc = "enter"
    /\ LET r == EngineSetup(obj, fr)
       IN /\ obj' = r.p
          /\ fr' = [r.fr EXCEPT !.apps = @ + 1]
    /\ pc' = "rounds"
    /\ UNCHANGED <<prev, hist, env, twin>>

AloneRound ==
    /\ env.phase < 3
    /\ pc = "rounds"
    /\ fr.i < obj.rounds
    /\ LET r == EngineRound(obj, fr)
       IN /\ obj' = r.p
          /\ fr' = r.fr
    /\ UNCHANGED <<pc, prev, hist, env, twin>>

\* The call run alone returns: its result is kept, and the next call to
\* run alone, or the race, starts on the object as constructed.
AloneReturn ==
    /\ env.phase < 3
    /\ pc = "rounds"
    /\ fr.i >= obj.rounds
    /\ env' = [env EXCEPT !.alone[env.phase] = EngineFinish(obj, fr).fr.inOut,
                          !.phase = @ + 1]
    /\ obj' = env.fresh
    /\ fr' = IF env.phase = 1
             THEN CallFrame(env.inputs[2], env.tweaks[2])
             ELSE CallFrame(env.inputs[1], env.tweaks[1])
    /\ pc' = "enter"
    /\ UNCHANGED <<prev, hist, twin>>

\* The frame and position of call k.
FrameOf(k) == IF k = 1 THEN fr ELSE twin.fr
PcOf(k) == IF k = 1 THEN pc ELSE twin.pc

\* A step of call k now takes the processor from the other call in the
\* middle of its rounds.
Preempts(k) == hist.last = 3 - k /\ PcOf(3 - k) = "rounds"

\* Call k takes a step that leaves the object as o and the call at
\* frame, position: the other call is cut into if it is in its rounds.
Stepped(k, o, frame, position) ==
    /\ Preempts(k) => hist.switches < MaxSwitches
    /\ obj' = o
    /\ IF k = 1
       THEN /\ fr' = frame
            /\ pc' = position
            /\ twin' = twin
            /\ hist' = [hist EXCEPT !.cut2 = @ \/ twin.pc = "rounds",
                                    !.last = 1,
                                    !.switches = IF Preempts(1) THEN @ + 1 ELSE @]
       ELSE /\ twin' = [twin EXCEPT !.fr = frame, !.pc = position]
            /\ hist' = [hist EXCEPT !.cut1 = @ \/ pc = "rounds",
                                    !.last = 2,
                                    !.switches = IF Preempts(2) THEN @ + 1 ELSE @]
            /\ UNCHANGED <<fr, pc>>
    /\ UNCHANGED <<prev, env>>

RaceEnter ==
    \E k \in {1, 2} :
        /\ env.phase = 3
        /\ PcOf(k) = "enter"
        /\ LET r == EngineSetup(obj, FrameOf(k))
           IN Stepped(k, r.p, [r.fr EXCEPT !.apps = @ + 1], "rounds")

RaceRound ==
    \E k \in {1, 2} :
        /\ env.phase = 3
        /\ PcOf(k) = "rounds"
        /\ FrameOf(k).i < obj.rounds
        /\ LET r == EngineRound(obj, FrameOf(k))
           IN Stepped(k, r.p, r.fr, IF r.fr.panic # "" THEN "panicked" ELSE "rounds")

RaceReturn ==
    \E k \in {1, 2} :
        /\ env.phase = 3
        /\ PcOf(k) = "rounds"
        /\ FrameOf(k).i >= obj.rounds
        /\ LET r == EngineFinish(obj, FrameOf(k))
           IN Stepped(k, r.p, r.fr, "returned")

NextRace ==
    \/ AloneEnter
    \/ AloneRound
    \/ AloneReturn
    \/ RaceEnter
    \/ RaceRound
    \/ RaceReturn

SpecRace == InitRace /\ [][NextRace]_vars

---------------------------------------------------------------------------
(* Properties of the range permutation (specification Spec).               *)

IsRange == obj.kind = "ArbitraryN"
N == IntOf(obj.n)
ValidInput(v) == v >= 0 /\ v < N

\* C1: the range permutation is a bijection on [0, N): a call with an input
\* in [0, N) returns an output in [0, N), and two calls with the same tweak
\* and distinct inputs in [0, N) return distinct outputs.
C1_RangeBijection ==
    (IsRange /\ pc = "returned" /\ ValidInput(fr.value))
    => /\ fr.inOut >= 0
       /\ fr.inOut < N
       /\ (prev.valid /\ prev.tweak = fr.tweak /\ ValidInput(prev.value)
             /\ prev.value # fr.value)
          => prev.out # fr.inOut

\* Two calls with distinct inputs and one tweak have returned, the second
\* after cycle walking.
C1_Witness ==
    /\ IsRange /\ pc = "returned" /\ ValidInput(fr.value)
    /\ prev.valid /\ prev.tweak = fr.tweak /\ ValidInput(prev.value)
    /\ prev.value # fr.value
    /\ fr.apps >= 2

\* The most applications of the engine a call may need: 2^lengthBits - N + 1.
WalkBound == Pow2(obj.p.lengthBits) - N + 1

\* C3: the cycle-walking loop ends, after at most 2^lengthBits - N + 1
\* applications of the engine: no call with an input in [0, N) is about to
\* apply the engine once more after that many applications.
C3_WalkTerminates ==
    (IsRange /\ fr.op # "none" /\ ValidInput(fr.value))
    => /\ fr.apps <= WalkBound
       /\ (pc = "enter" => fr.apps < WalkBound)

\* A call returned after walking through every out-of-range value.
C3_Witness ==
    /\ IsRange /\ pc = "returned" /\ ValidInput(fr.value)
    /\ fr.apps = WalkBound
    /\ fr.apps >= 3

\* C5: a call with value >= N panics before the engine is applied: the
\* value is as the caller passed it and no engine application has begun.
C5_OutOfRangePanics ==
    (IsRange /\ fr.op # "none" /\ fr.value >= N)
    => /\ pc = "panicked"
       /\ fr.apps = 0
       /\ fr.inOut = fr.value
       /\ fr.panic = "outside range of permutation"

C5_Witness == IsRange /\ pc = "panicked" /\ fr.value = N /\ fr.apps = 0

\* C7: a call with a negative value is rejected: it never returns a result.
C7_NegativeRejected == ~(IsRange /\ pc = "returned" /\ fr.value < 0)

---------------------------------------------------------------------------
(* Properties of repeated calls on one object (specification SpecEngines). *)

IsEngine == obj.kind \in {"FeistelSHAKE128", "FFX"}

\* The object as its constructor returns it, from the parameters bound at
\* construction.
Fresh(o) ==
    IF o.kind = "ArbitraryN"
    THEN NewN((IF o.p.kind = "FFX" THEN o.p.aes ELSE o.p.key), o.n)
    ELSE IF o.kind = "FFX" THEN NewFFX(o.aes, o.lengthBits)
    ELSE NewPowerOf2(o.key, o.lengthBits)

\* C4: a call's outcome depends only on key, domain, tweak and input: when
\* a call ends, after any earlier calls on the object, its result (or its
\* panic) is the one a freshly constructed object gives for that tweak and
\* input.
C4_ResultIndependentOfHistory ==
    (pc \in {"returned", "panicked"})
    => LET r == PermuteInPlace(Fresh(obj), fr.value, fr.tweak)
       IN /\ r.fr.panic = fr.panic
          /\ r.fr.inOut = fr.inOut

\* A call returned on an object whose scratch state an earlier call with
\* another input and a tweak of another length left behind.
C4_Witness ==
    /\ pc = "returned"
    /\ prev.valid
    /\ prev.value # fr.value
    /\ Len(prev.tweak) # Len(fr.tweak)
    /\ Engine(obj).kind = "FFX"

\* The first eight bytes of the header block, as NewFFX writes them.
StaticHeader(e) == <<0, 1, 2, 0, 2, e.lengthBits, e.lengthBits \div 2, e.rounds>>

\* C10: while the rounds of an FFX call run, the cached encrypted header is
\* the encryption of the header block carrying this call's tweak length; the
\* call encrypted the header (once) exactly if it is the first call or its
\* tweak length differs from the previous call's; and the header block's
\* first eight bytes are as constructed.
C10_HeaderCache ==
    (Engine(obj).kind = "FFX")
    => LET e == Engine(obj)
       IN /\ SubSeq(e.p, 1, 8) = StaticHeader(e)
          /\ (pc = "rounds")
             => /\ e.encryptedP
                     = AesEncrypt(e.aes, StaticHeader(e) \o BigEndian64(Len(fr.tweak)))
                /\ e.nEncryptP \in {0, 1}
                /\ (e.nEncryptP = 1) <=> (hist.n = 1 \/ Len(fr.tweak) # hist.prevLen)

\* The rounds run on a cache reused from an earlier call whose tweak had the
\* same length but other bytes.
C10_Witness ==
    /\ Engine(obj).kind = "FFX"
    /\ pc = "rounds"
    /\ Engine(obj).nEncryptP = 0
    /\ prev.valid
    /\ prev.tweak # fr.tweak
    /\ Len(fr.tweak) = 1

\* C6: a fixed-domain engine called with a value >= 2^lengthBits aborts: it
\* never returns a result for such a value.
C6_EngineRejectsOutOfRange ==
    ~(IsEngine /\ pc = "returned" /\ fr.value >= Pow2(obj.lengthBits))

---------------------------------------------------------------------------
(* Properties of the fixed-domain engines under any round function         *)
(* (specification SpecPair).                                               *)

InDomain(e, v) == v >= 0 /\ v < Pow2(e.lengthBits)

\* C2: PermuteInPlace of a fixed-domain engine is a bijection on
\* [0, 2^lengthBits) whatever the round function computes: under every
\* round function tried, two calls with distinct inputs of the domain
\* return distinct values of the domain.
C2_EngineBijection ==
    (pc = "returned" /\ twin.fr.op # "none")
    => /\ InDomain(obj, fr.inOut)
       /\ InDomain(obj, twin.fr.inOut)
       /\ fr.inOut # twin.fr.inOut

\* Two calls of the AES engine over an odd width have returned, under a
\* round function that is not the engine's own.
C2_Witness ==
    /\ pc = "returned" /\ twin.fr.op # "none"
    /\ obj.kind = "FFX"
    /\ obj.lengthBits % 2 = 1
    /\ env.rf.kind = "ones"
    /\ fr.value # twin.fr.value

---------------------------------------------------------------------------
(* Properties of NewN (specification SpecNewN).                            *)

Built == pc = "idle" /\ obj.kind = "ArbitraryN" /\ env.api \in {"NewN", "NewNInt"}

\* 2^(l-1) < n <= 2^l
SmallestCover(n, l) ==
    /\ NatCmp(n, NatPow2(l)) <= 0
    /\ NatCmp(NatPow2(l - 1), n) < 0

\* C8: for every N >= 1 NewN derives lengthBits = max(2, bitlength(N-1)),
\* the smallest width >= 2 whose power of two covers N; the engine is FFX
\* exactly when 8 <= lengthBits <= 128 and FeistelSHAKE128 otherwise; the
\* chosen constructor does not fail.
C8_WidthAndEngine ==
    Built =>
        /\ obj.p.kind \in {"FFX", "FeistelSHAKE128"}
        /\ obj.n = env.n
        /\ LET l == obj.p.lengthBits
           IN /\ l >= 2
              /\ l = (IF NatBitLen(NatSub1(env.n)) > 2 THEN NatBitLen(NatSub1(env.n)) ELSE 2)
              /\ NatCmp(env.n, NatPow2(l)) <= 0
              /\ NatCmp(env.n, NatOf(2)) > 0 => SmallestCover(env.n, l)
              /\ NatCmp(env.n, NatOf(2)) <= 0 => l = 2
              /\ obj.p.kind = "FFX" <=> (l >= 8 /\ l <= 128)

\* A range of more than 128 bits has been built, over the SHAKE engine.
C8_Witness ==
    /\ Built
    /\ obj.p.kind = "FeistelSHAKE128"
    /\ obj.p.lengthBits > 128

\* C9 as stated: for every N >= 1, 2*N >= 2^lengthBits.
C9_HalfBelowN ==
    Built => NatCmp(<<0>> \o env.n, NatPow2(obj.p.lengthBits)) >= 0

\* C9 for N >= 2: 2*N >= 2^lengthBits.
C9_HalfBelowNFrom2 ==
    (Built /\ NatCmp(env.n, NatOf(2)) >= 0)
    => NatCmp(<<0>> \o env.n, NatPow2(obj.p.lengthBits)) >= 0

\* A range just past a power of two has been built: 2^k + 1 over k + 1
\* bits, where barely more than half of the domain is below N.
C9_Witness ==
    /\ Built
    /\ obj.p.lengthBits > 2
    /\ env.n = NatInc(NatPow2(obj.p.lengthBits - 1))

---------------------------------------------------------------------------
(* The widths of the two halves through the round loop (specification      *)
(* SpecPair).                                                              *)

\* The half a call feeds the round function, and the half the round's
\* output is XORed into.
FedHalf(e, frame) == IF e.kind = "FFX" THEN frame.b ELSE e[frame.b]
OtherHalf(e, frame) == IF e.kind = "FFX" THEN frame.a ELSE e[frame.a]

\* Width of the round function's output in round i, and of the half fed
\* to it.
OutWidth(e, i) ==
    IF e.kind = "FFX" THEN BitsToKeep(e.lengthBits, i)
    ELSE OutLenBits(e.lengthBits, i)

FedWidth(e, i) == e.lengthBits - OutWidth(e, i)

FitsWidth(v, w) == v >= 0 /\ v < Pow2(w)

\* The halves of a call at the top of round frame.i (or after the last
\* round) have the widths of that round.
HalvesFit(e, frame) ==
    /\ frame.panic = ""
    /\ FitsWidth(FedHalf(e, frame), FedWidth(e, frame.i))
    /\ FitsWidth(OtherHalf(e, frame), OutWidth(e, frame.i))

\* The result is the two halves side by side, the low one as wide as the
\* half fed to round 0.
Reassembled(e, frame) ==
    /\ frame.inOut = OtherHalf(e, frame) * Pow2(FedWidth(e, 0)) + FedHalf(e, frame)
    /\ frame.inOut < Pow2(e.lengthBits)

\* C11: for both engines, even and odd widths and every in-range input,
\* at the top of every round the half fed to the round function fits the
\* round's input width and the other half fits its output width (floor
\* and ceiling of lengthBits/2, alternating with the round's parity), no
\* write of the fed half into the round buffer fails, the number of
\* rounds is even, and the result is the two halves reassembled without
\* overlapping bits, below 2^lengthBits.
C11_HalfWidths ==
    (twin.fr.op # "none" /\ pc \in {"rounds", "returned"})
    => /\ obj.rounds % 2 = 0
       /\ \A l \in 2..(2 * FFXMaxBits) : Rounds(l) % 2 = 0
       /\ {FedWidth(obj, 0), OutWidth(obj, 0)}
            = {obj.lengthBits \div 2, obj.lengthBits - (obj.lengthBits \div 2)}
       /\ FedWidth(obj, fr.i) = OutWidth(obj, fr.i + 1)
       /\ HalvesFit(obj, fr)
       /\ HalvesFit(twin.obj, twin.fr)
       /\ pc = "returned"
            => /\ fr.i = obj.rounds
               /\ Reassembled(obj, fr)
               /\ Reassembled(twin.obj, twin.fr)

\* A call on an odd width is at the top of an odd round with the top bit
\* of the wider half set, under a round function that sets every bit.
C11_Witness ==
    /\ twin.fr.op # "none" /\ pc = "rounds"
    /\ obj.lengthBits % 2 = 1
    /\ fr.i % 2 = 1
    /\ env.rf.kind = "ones"
    /\ \/ FedHalf(obj, fr) >= Pow2(obj.lengthBits \div 2)
       \/ OtherHalf(obj, fr) >= Pow2(obj.lengthBits \div 2)

---------------------------------------------------------------------------
(* Properties of unserialised calls on one object (specification          *)
(* SpecRace).                                                              *)

\* Call k has ended otherwise than it ends alone.
Diverged(k) ==
    \/ PcOf(k) = "panicked"
    \/ PcOf(k) = "returned" /\ FrameOf(k).inOut # env.alone[k]

\* C12: two calls on the same object race on its scratch state: a call
\* can end with a value other than the one it returns alone (the witness),
\* and it does so only when steps of the other call ran between its
\* set-up and its return; nothing in the object keeps the other call out.
C12_RaceOnScratch ==
    "cut1" \in DOMAIN hist /\ env.phase = 3
    => /\ Diverged(1) => hist.cut1
       /\ Diverged(2) => hist.cut2

\* Two calls on one FFX object with tweaks of different lengths have both
\* returned, and the first returned a value it does not return alone.
C12_Witness ==
    /\ "cut1" \in DOMAIN hist /\ env.phase = 3
    /\ obj.kind = "FFX"
    /\ pc = "returned" /\ twin.pc = "returned"
    /\ Len(fr.tweak) # Len(twin.fr.tweak)
    /\ Diverged(1)

===========================================================================
